---- MODULE Spec2Model ----
(***************************************************************************)
(* A model of the digital document signature backend:                      *)
(*   src/utils/pdf-signer.js  signPdfWithImage, signPdfWithText            *)
(*   src/routes/api.js        POST /upload-pdf, /sign-pdf,                 *)
(*                            /apply-signatures and signatureQueue         *)
(*                                                                         *)
(* PDF bytes are modelled by what pdf-lib reads from them: whether they    *)
(* parse, and the pages with the elements drawn on each.  Strings that the *)
(* code takes apart (data URLs, hex colours) are sequences of tokens or    *)
(* characters, so that split, startsWith, substring and parseInt are       *)
(* computed and not assumed.                                               *)
(***************************************************************************)
EXTENDS Integers, Sequences, FiniteSets, TLC

(***************************************************************************)
(* Bounds of the model.                                                    *)
(***************************************************************************)
\* requests the server receives in one run (Spec)
MaxRequests == 2
\* length of the signature list of one /apply-signatures request (SpecBatch)
MaxBatch == 3
\* compositor calls chained on their outputs (SpecChain)
MaxChain == 2

(***************************************************************************)
(* PDF documents.                                                          *)
(***************************************************************************)
\* a page as pdf-lib exposes it: getWidth(), getHeight(), and what is drawn
BlankPage == [width |-> 612, height |-> 792, content |-> <<>>]
NarrowPage == [width |-> 300, height |-> 400, content |-> <<>>]

\* bytes that PDFDocument.load rejects
MalformedPdf == [valid |-> FALSE, pages |-> <<>>]
\* a one page and a two page document
OnePagePdf == [valid |-> TRUE, pages |-> <<BlankPage>>]
TwoPagePdf == [valid |-> TRUE, pages |-> <<BlankPage, NarrowPage>>]

PageCount(pdfBytes) == Len(pdfBytes.pages)

\* the number of elements drawn on page p
ElementsOn(pdfBytes, p) == Len(pdfBytes.pages[p].content)

RECURSIVE SumElements(_, _)
SumElements(pages, n) ==
  IF n = 0 THEN 0 ELSE Len(pages[n].content) + SumElements(pages, n - 1)

\* the number of elements drawn on all pages
ElementCount(pdfBytes) == SumElements(pdfBytes.pages, Len(pdfBytes.pages))

(***************************************************************************)
(* Errors: the kind stands for the message text; a page error's message    *)
(* also carries the requested page number and the page count.              *)
(***************************************************************************)
Err(kind) == [kind |-> kind, page |-> 0, count |-> 0]
\* (a variant that names the two numbers the wrong way round)
PageOutOfBoundsSwapped(pageNumber, count) ==
  [kind |-> "PageOutOfBounds", page |-> count, count |-> pageNumber]
\* `Page number ${pageNumber} is out of bounds. PDF has ${pages.length} pages.`
PageOutOfBounds(pageNumber, count) ==
  [kind |-> "PageOutOfBounds", page |-> pageNumber, count |-> count]
NoError == Err("none")

(***************************************************************************)
(* The working document of one compositor call (pdfDoc): its pages and the *)
(* image and font resources embedded so far.                               *)
(***************************************************************************)
LoadedDoc(pdfBytes) == [pages |-> pdfBytes.pages, images |-> <<>>, fonts |-> <<>>]

\* pdfDoc.save(): the bytes of the working document
Save(pdfDoc) == [valid |-> TRUE, pages |-> pdfDoc.pages]

\* a rejected call: the error thrown and the working document left behind
Rejected(error, pdfDoc, warned) ==
  [ok |-> FALSE, bytes |-> MalformedPdf, error |-> error, work |-> pdfDoc,
   warned |-> warned]
\* a fulfilled call: the saved bytes
Fulfilled(pdfDoc, warned) ==
  [ok |-> TRUE, bytes |-> Save(pdfDoc), error |-> NoError, work |-> pdfDoc,
   warned |-> warned]

\* (a variant that tests the lower bounds only)
CoordinatesNegative(page, x, y) == x < 0 \/ y < 0
\* the coordinate check: console.warn when (x, y) is outside the page
CoordinatesOutside(page, x, y) ==
  x < 0 \/ y < 0 \/ x > page.width \/ y > page.height

\* (a variant that draws on the first page whatever the page number)
DrawOnFirstPage(pdfDoc, pageNumber, element) ==
  [pdfDoc EXCEPT !.pages[1].content = Append(@, element)]
\* page.drawImage / page.drawText: one more element on page pageNumber
DrawOn(pdfDoc, pageNumber, element) ==
  [pdfDoc EXCEPT !.pages[pageNumber].content = Append(@, element)]

(***************************************************************************)
(* Image data URLs: a sequence of tokens, "," being a token of its own.    *)
(***************************************************************************)
PngUrl == <<"data:image/png", ";base64", ",", "b64:png">>
JpegUrl == <<"data:image/jpeg", ";base64", ",", "b64:jpeg">>
GifUrl == <<"data:image/gif", ";base64", ",", "b64:gif">>
\* a declared PNG whose payload is not one
BadPngUrl == <<"data:image/png", ";base64", ",", "b64:gif">>
\* no comma, so no base64 part
GifNoCommaUrl == <<"data:image/gif", ";base64">>
PngNoCommaUrl == <<"data:image/png", ";base64">>

RECURSIVE SplitFrom(_, _, _)
SplitFrom(s, i, cur) ==
  IF i > Len(s) THEN <<cur>>
  ELSE IF s[i] = "," THEN <<cur>> \o SplitFrom(s, i + 1, <<>>)
  ELSE SplitFrom(s, i + 1, Append(cur, s[i]))

\* imageDataUrl.split(',')
SplitComma(s) == SplitFrom(s, 1, <<>>)

\* imageDataUrl.startsWith(prefix), the prefix being one token
StartsWith(s, prefix) == Len(s) >= 1 /\ s[1] = prefix

\* Buffer.from(text, 'base64'): the image bytes the text encodes
Base64Decode(part) ==
  IF part = <<"b64:png">> THEN "png"
  ELSE IF part = <<"b64:jpeg">> THEN "jpeg"
  ELSE IF part = <<>> THEN "empty"
  ELSE "other"

\* image.scale(0.2) of an image of IntrinsicSize: a fifth
IntrinsicSize == [width |-> 200, height |-> 100]
ScaleDivisor == 5
ImageScale(size) ==
  [width |-> size.width \div ScaleDivisor, height |-> size.height \div ScaleDivisor]

ImageElement(format, x, y) ==
  [kind |-> "image", format |-> format, x |-> x, y |-> y,
   width |-> ImageScale(IntrinsicSize).width,
   height |-> ImageScale(IntrinsicSize).height]

\* lines 36-45 once the payload text exists: embedPng, embedJpg or the
\* unsupported-format error; the embedders reject bytes of another format
EmbedImage(pdfDoc, imageDataUrl, imageBytes) ==
  IF StartsWith(imageDataUrl, "data:image/png")
  THEN IF imageBytes = "png"
       THEN [ok |-> TRUE, format |-> "png", error |-> NoError]
       ELSE [ok |-> FALSE, format |-> "", error |-> Err("ImageDecodeError")]
  ELSE IF StartsWith(imageDataUrl, "data:image/jpeg")
  THEN IF imageBytes = "jpeg"
       THEN [ok |-> TRUE, format |-> "jpeg", error |-> NoError]
       ELSE [ok |-> FALSE, format |-> "", error |-> Err("ImageDecodeError")]
  ELSE [ok |-> FALSE, format |-> "", error |-> Err("UnsupportedImageFormat")]

\* the page test of lines 22 and 89
PageInRange(pageNumber, count) == ~(pageNumber < 1 \/ pageNumber > count)

\* signPdfWithImage(pdfBytes, imageDataUrl, x, y, pageNumber); imageDataUrl
\* is a string, as documented (line 15 logs its length before the try)
signPdfWithImage(pdfBytes, imageDataUrl, x, y, pageNumber) ==
  IF ~pdfBytes.valid
  THEN Rejected(Err("MalformedDocument"), LoadedDoc(pdfBytes), FALSE)
  ELSE
  LET pdfDoc == LoadedDoc(pdfBytes)
      count == Len(pdfDoc.pages)
  IN
  IF ~PageInRange(pageNumber, count)
  THEN Rejected(PageOutOfBounds(pageNumber, count), pdfDoc, FALSE)
  ELSE
  \* pages[pageNumber - 1] is undefined: page.getWidth() throws
  IF pageNumber \notin DOMAIN pdfDoc.pages
  THEN Rejected(Err("TypeError"), pdfDoc, FALSE)
  ELSE
  LET page == pdfDoc.pages[pageNumber]
      warned == CoordinatesOutside(page, x, y)
      parts == SplitComma(imageDataUrl)
  IN
  \* Buffer.from(undefined, 'base64') throws a TypeError
  IF Len(parts) < 2
  THEN Rejected(Err("TypeError"), pdfDoc, warned)
  ELSE
  LET embedded == EmbedImage(pdfDoc, imageDataUrl, Base64Decode(parts[2]))
  IN
  IF ~embedded.ok
  THEN Rejected(embedded.error, pdfDoc, warned)
  ELSE
  LET withImage == [pdfDoc EXCEPT !.images = Append(@, embedded.format)]
  IN Fulfilled(DrawOn(withImage, pageNumber,
                      ImageElement(embedded.format, x, y)), warned)

(***************************************************************************)
(* Fonts.  fontName is a string of the request, or absent; toLowerCase is  *)
(* given on the names the model draws from.                                *)
(***************************************************************************)
\* a text request that carries no font: fontName is undefined
NoFontName == "<undefined>"
FontNames ==
  {"Helvetica", "HELVETICA-BOLD", "Times-Roman", "courier", "TimesRoman",
   "Comic-Sans-9000", NoFontName}

\* fontName.toLowerCase() of a string
ToLowerCase(name) ==
  CASE name = "Helvetica" -> "helvetica"
    [] name = "HELVETICA-BOLD" -> "helvetica-bold"
    [] name = "Times-Roman" -> "times-roman"
    [] name = "courier" -> "courier"
    [] name = "TimesRoman" -> "timesroman"
    [] name = "Comic-Sans-9000" -> "comic-sans-9000"

\* pdf-lib's StandardFonts members the switch names
StandardFonts == {"Helvetica", "Helvetica-Bold", "Times-Roman", "Courier"}
FallbackFont == "Helvetica"

\* the cases of the switch: the font of a lower-cased name, the default
\* being the fallback
FontInTable(lower) == lower \in {"helvetica", "helvetica-bold", "times-roman", "courier"}
SwitchFont(lower) ==
  CASE lower = "helvetica" -> "Helvetica"
    [] lower = "helvetica-bold" -> "Helvetica-Bold"
    [] lower = "times-roman" -> "Times-Roman"
    [] lower = "courier" -> "Courier"
    [] OTHER -> FallbackFont

\* pdfDoc.embedFont(font): throws for the fonts of `failing`, the fonts the
\* library cannot embed in this run
EmbedFontFails(font, failing) == font \in failing

\* (a variant whose catch gives up instead of falling back)
CatchRethrow(failing) ==
  [ok |-> FALSE, font |-> "", error |-> Err("FontEmbedError"), caught |-> TRUE]
\* the catch of lines 125-128: embed the fallback font, outside any try
CatchEmbedFallback(failing) ==
  IF EmbedFontFails(FallbackFont, failing)
  THEN [ok |-> FALSE, font |-> "", error |-> Err("FontEmbedError"), caught |-> TRUE]
  ELSE [ok |-> TRUE, font |-> FallbackFont, error |-> NoError, caught |-> TRUE]

\* lines 103-128: the font drawn with, or the error that leaves the function
ResolveFont(fontName, failing) ==
  IF fontName = NoFontName
  THEN \* undefined.toLowerCase() throws inside the try
       CatchEmbedFallback(failing)
  ELSE LET wanted == SwitchFont(ToLowerCase(fontName))
       IN IF EmbedFontFails(wanted, failing)
          THEN CatchEmbedFallback(failing)
          ELSE [ok |-> TRUE, font |-> wanted, error |-> NoError, caught |-> FALSE]

(***************************************************************************)
(* Colours: a hex colour is a sequence of characters.                      *)
(***************************************************************************)
HexDigits == <<"0", "1", "2", "3", "4", "5", "6", "7", "8", "9",
               "a", "b", "c", "d", "e", "f">>
UpperHexDigits == <<"0", "1", "2", "3", "4", "5", "6", "7", "8", "9",
                    "A", "B", "C", "D", "E", "F">>
IsHexDigit(c) == \E i \in 1..16 : HexDigits[i] = c \/ UpperHexDigits[i] = c
HexValue(c) == (CHOOSE i \in 1..16 : HexDigits[i] = c \/ UpperHexDigits[i] = c) - 1

\* the value parseInt gives when no digit can be read
NaN == 0 - 1

\* hex.substring(from, to), 0-indexed, to exclusive, both cut to the length
Substring(s, from, to) ==
  LET lo == IF from > Len(s) THEN Len(s) ELSE from
      hi == IF to > Len(s) THEN Len(s) ELSE to
  IN SubSeq(s, lo + 1, hi)

RECURSIVE ParseHexFrom(_, _, _)
ParseHexFrom(s, i, acc) ==
  IF i > Len(s) \/ ~IsHexDigit(s[i]) THEN acc
  ELSE ParseHexFrom(s, i + 1, 16 * acc + HexValue(s[i]))

\* parseInt(s, 16) on strings of the characters of the colours below: the
\* value of the longest prefix of hex digits, NaN when there is none
ParseInt16(s) ==
  IF Len(s) = 0 \/ ~IsHexDigit(s[1]) THEN NaN ELSE ParseHexFrom(s, 1, 0)

\* (a variant that reads the pairs from the first character on)
hexToRgbFromStart(hex) ==
  LET r == ParseInt16(Substring(hex, 0, 2))
      g == ParseInt16(Substring(hex, 2, 4))
      b == ParseInt16(Substring(hex, 4, 6))
  IN [ok |-> r # NaN /\ g # NaN /\ b # NaN, r |-> r, g |-> g, b |-> b]
\* hexToRgb(hex): the three channels out of 255; rgb() rejects a NaN channel
hexToRgb(hex) ==
  LET r == ParseInt16(Substring(hex, 1, 3))
      g == ParseInt16(Substring(hex, 3, 5))
      b == ParseInt16(Substring(hex, 5, 7))
  IN [ok |-> r # NaN /\ g # NaN /\ b # NaN, r |-> r, g |-> g, b |-> b]

BlackHex == <<"#", "0", "0", "0", "0", "0", "0">>
OrangeHex == <<"#", "f", "F", "8", "0", "0", "0">>
OrangeNoHashHex == <<"f", "F", "8", "0", "0", "0">>
RedWordHex == <<"r", "e", "d">>

TextElement(text, x, y, font, fontSize, color) ==
  [kind |-> "text", text |-> text, x |-> x, y |-> y, font |-> font,
   size |-> fontSize, r |-> color.r, g |-> color.g, b |-> color.b]

\* signPdfWithText(pdfBytes, text, x, y, pageNumber, fontName, fontSize, colorHex)
\* in a run where embedFont throws for the fonts of `failing`
signPdfWithTextIn(failing, pdfBytes, text, x, y, pageNumber, fontName, fontSize, colorHex) ==
  IF ~pdfBytes.valid
  THEN Rejected(Err("MalformedDocument"), LoadedDoc(pdfBytes), FALSE)
  ELSE
  LET pdfDoc == LoadedDoc(pdfBytes)
      count == Len(pdfDoc.pages)
  IN
  IF ~PageInRange(pageNumber, count)
  THEN Rejected(PageOutOfBounds(pageNumber, count), pdfDoc, FALSE)
  ELSE
  \* pages[pageNumber - 1] is undefined: page.getWidth() throws
  IF pageNumber \notin DOMAIN pdfDoc.pages
  THEN Rejected(Err("TypeError"), pdfDoc, FALSE)
  ELSE
  LET page == pdfDoc.pages[pageNumber]
      warned == CoordinatesOutside(page, x, y)
      font == ResolveFont(fontName, failing)
  IN
  IF ~font.ok
  THEN Rejected(font.error, pdfDoc, warned)
  ELSE
  LET withFont == [pdfDoc EXCEPT !.fonts = Append(@, font.font)]
      color == hexToRgb(colorHex)
  IN
  IF ~color.ok
  THEN Rejected(Err("TypeError"), withFont, warned)
  ELSE Fulfilled(DrawOn(withFont, pageNumber,
                        TextElement(text, x, y, font.font, fontSize, color)), warned)

\* the call as the routes make it: the library embeds every standard font
signPdfWithText(pdfBytes, text, x, y, pageNumber, fontName, fontSize, colorHex) ==
  signPdfWithTextIn({}, pdfBytes, text, x, y, pageNumber, fontName, fontSize, colorHex)

(***************************************************************************)
(* Signature requests, as the routes read them from the request body.      *)
(***************************************************************************)
Signature(type, data, x, y, pageNumber, font, fontSize, color) ==
  [type |-> type, data |-> data, x |-> x, y |-> y, pageNumber |-> pageNumber,
   font |-> font, fontSize |-> fontSize, color |-> color]

\* an image request carries no text fields
ImageSignature(data, x, y, pageNumber) ==
  Signature("image", data, x, y, pageNumber, NoFontName, 0, <<>>)
TextSignature(x, y, pageNumber, font, color) ==
  Signature("text", <<"Jane Doe">>, x, y, pageNumber, font, 24, color)

\* (x, y) inside every page, left of the page, right of the narrow page, and
\* on the corner of the first page
Coordinates == {<<100, 300>>, <<0 - 5, 50>>, <<500, 700>>, <<0, 792>>}
ImageUrls == {PngUrl, JpegUrl, GifUrl, BadPngUrl, GifNoCommaUrl, PngNoCommaUrl}
HexColors == {BlackHex, OrangeHex, OrangeNoHashHex, RedWordHex}
\* page numbers around the page counts of the documents
PageNumbers == (0 - 1)..3
\* the fonts embedFont fails for in one run: none, or one that is not the
\* fallback (embedding the fallback is the last resort of the code)
FailingFonts == {{}} \cup {{f} : f \in StandardFonts \ {FallbackFont}}

\* a document that already carries a signature on its first page
SignedPdf == signPdfWithImage(OnePagePdf, JpegUrl, 100, 300, 1).bytes
InputPdfs == {MalformedPdf, OnePagePdf, TwoPagePdf, SignedPdf}

ImageSignatures ==
  {ImageSignature(u, c[1], c[2], p) : u \in ImageUrls, c \in Coordinates, p \in PageNumbers}
TextSignatures ==
  {TextSignature(c[1], c[2], p, f, h) :
     c \in Coordinates, p \in PageNumbers, f \in FontNames, h \in HexColors}

(***************************************************************************)
(* State.                                                                  *)
(***************************************************************************)
VARIABLES
  \* a compositor called on its own (SpecCompositor, SpecChain):
  cOrig,     \* the bytes the first call was given
  cInput,    \* the bytes the last call was given
  cCall,     \* the last call: the signature, the failing fonts; made or not
  cResult,   \* what the last call returned or threw
  cPages,    \* the page numbers of the fulfilled calls, in order
  \* the server (Spec, SpecBatch):
  handlers,        \* the route handlers started, in the order they started
  arrays,          \* the array objects signatureQueue has been bound to
  signatureQueue,  \* the array object the module variable is bound to
  uploads,         \* the files written to the uploads folder
  documents        \* the Document records saved

cvars == <<cOrig, cInput, cCall, cResult, cPages>>
svars == <<handlers, arrays, signatureQueue, uploads, documents>>
vars == <<cvars, svars>>

NoCall == [made |-> FALSE, sig |-> ImageSignature(<<>>, 0, 0, 0), failing |-> {}]
NoResult == Rejected(NoError, LoadedDoc(MalformedPdf), FALSE)

\* one compositor call on pdfBytes, by the type of the signature
Compose(pdfBytes, sig, failing) ==
  IF sig.type = "image"
  THEN signPdfWithImage(pdfBytes, sig.data, sig.x, sig.y, sig.pageNumber)
  ELSE signPdfWithTextIn(failing, pdfBytes, sig.data, sig.x, sig.y, sig.pageNumber,
                         sig.font, sig.fontSize, sig.color)

\* the bytes the next chained call is given: the output of the last
\* fulfilled call
NextInput == IF cCall.made /\ cResult.ok THEN cResult.bytes ELSE cInput

\* let signatureQueue = []
EmptyArray == [items |-> <<>>, hasPdfBytes |-> FALSE, pdfBytes |-> MalformedPdf]

\* the server as the module is loaded: no request yet, an empty queue
InitServer ==
  /\ handlers = <<>>
  /\ arrays = <<EmptyArray>>
  /\ signatureQueue = 1
  /\ uploads = {}
  /\ documents = <<>>

\* no compositor is called outside the routes
InitNoCall ==
  /\ cOrig = MalformedPdf
  /\ cInput = MalformedPdf
  /\ cCall = NoCall
  /\ cResult = NoResult
  /\ cPages = <<>>

InitCompositor ==
  /\ cOrig \in InputPdfs
  /\ cInput = cOrig
  /\ cCall = NoCall
  /\ cResult = NoResult
  /\ cPages = <<>>
  /\ InitServer

\* a caller invokes a compositor on the output of the calls before
Invoke(sig, failing, limit) ==
  /\ Len(cPages) < limit
  /\ cInput' = NextInput
  /\ cCall' = [made |-> TRUE, sig |-> sig, failing |-> failing]
  /\ cResult' = Compose(NextInput, sig, failing)
  /\ cPages' = IF cResult'.ok THEN Append(cPages, sig.pageNumber) ELSE cPages
  /\ UNCHANGED <<cOrig, svars>>

InvokeImage(limit) == \E sig \in ImageSignatures : Invoke(sig, {}, limit)
InvokeText(limit) ==
  \E sig \in TextSignatures, failing \in FailingFonts : Invoke(sig, failing, limit)

\* SpecCompositor: one call, on each of the input documents
NextCompositor ==
  \/ ~cCall.made /\ InvokeImage(1)
  \/ ~cCall.made /\ InvokeText(1)
SpecCompositor == InitCompositor /\ [][NextCompositor]_vars

\* SpecColor: one text call for each colour string of six hex digits, with
\* and without the leading '#'
ColorDigits == {"0", "9", "a", "F"}
SixDigits == [1..6 -> ColorDigits]
ColorStrings == SixDigits \cup {<<"#">> \o digits : digits \in SixDigits}

InitColor ==
  /\ cOrig = OnePagePdf
  /\ cInput = cOrig
  /\ cCall = NoCall
  /\ cResult = NoResult
  /\ cPages = <<>>
  /\ InitServer

InvokeColor ==
  /\ ~cCall.made
  /\ \E colorHex \in ColorStrings :
       Invoke(TextSignature(100, 300, 1, "Helvetica", colorHex), {}, 1)
NextColor == InvokeColor
SpecColor == InitColor /\ [][NextColor]_vars

\* the calls of a chain: up to MaxChain of them fulfilled, each on the
\* output of the one before
ChainCoordinates == {<<100, 300>>, <<500, 700>>}
ChainSignatures ==
  {sig \in ImageSignatures :
     /\ sig.data \in {PngUrl, JpegUrl, GifUrl}
     /\ <<sig.x, sig.y>> \in ChainCoordinates}
  \cup
  {sig \in TextSignatures :
     /\ sig.font \in {"courier", "TimesRoman"}
     /\ sig.color \in {OrangeHex, RedWordHex}
     /\ <<sig.x, sig.y>> \in ChainCoordinates}

InvokeChained == \E sig \in ChainSignatures : Invoke(sig, {}, MaxChain)
NextChain == InvokeChained
SpecChain == InitCompositor /\ [][NextChain]_vars

(***************************************************************************)
(* The routes of src/routes/api.js.  A handler runs from its start, or     *)
(* from the await it was suspended at, to its next await or its response;  *)
(* other handlers run only while it is suspended.  The awaits of a         *)
(* compositor call are such points: pdf-lib's load and save yield to the   *)
(* event loop.                                                             *)
(***************************************************************************)
\* req.file of multer: the uploaded buffer, or undefined
NoFile == [present |-> FALSE, buffer |-> MalformedPdf]
File(pdfBytes) == [present |-> TRUE, buffer |-> pdfBytes]

\* res.status(...).json / send
NoResponse ==
  [sent |-> FALSE, status |-> 0, kind |-> "", body |-> "", bytes |-> MalformedPdf,
   position |-> 0, error |-> NoError]
\* res.status(status).json({ msg })
JsonMsg(status, msg) ==
  [NoResponse EXCEPT !.sent = TRUE, !.status = status, !.kind = "json", !.body = msg]
\* res.status(status).send(text)
TextResponse(status, text) ==
  [NoResponse EXCEPT !.sent = TRUE, !.status = status, !.kind = "text", !.body = text]
\* Content-Type application/pdf; res.send(Buffer.from(bytes))
PdfResponse(pdfBytes) ==
  [NoResponse EXCEPT !.sent = TRUE, !.status = 200, !.kind = "pdf", !.bytes = pdfBytes]
\* the catch of /apply-signatures: details is the message of the error, which
\* for a wrapped error is `Failed to apply signature ${position}: ${message}`
ApplyErrorResponse(position, error) ==
  [NoResponse EXCEPT !.sent = TRUE, !.status = 500, !.kind = "json",
                     !.body = "Server Error during signature application",
                     !.position = position, !.error = error]

\* the state of one handler: its request, its locals, its response, and a
\* record of the compositor calls it made and the warnings it logged; arr
\* is the array object a /sign-pdf handler iterates over and own the place
\* (from 1) its push gave its signature there
NewHandler(route, file) ==
  [route |-> route, pc |-> "done", file |-> file,
   signatures |-> [present |-> FALSE, parses |-> FALSE, value |-> <<>>],
   list |-> <<>>, i |-> 0,
   pdfBytes |-> MalformedPdf, arr |-> 0, own |-> 0, calls |-> <<>>,
   warnings |-> <<>>, overlapped |-> FALSE, response |-> NoResponse]

Respond(h, response) == [h EXCEPT !.pc = "done", !.response = response]

\* a compositor call that was started and has not returned
StartedCall(position, sig, pdfBytes) ==
  [position |-> position, sig |-> sig, input |-> pdfBytes, returned |-> FALSE,
   ok |-> FALSE, bytes |-> MalformedPdf, error |-> NoError]
ReturnedCall(call, result) ==
  [call EXCEPT !.returned = TRUE, !.ok = result.ok, !.bytes = result.bytes,
               !.error = result.error]

\* (a variant whose else branch signs with text instead of warning)
AlwaysApplied(sig) == TRUE
\* (a variant that has lost its else if branch)
OnlyImageApplied(sig) == sig.type = "image"
\* the if / else if of the type dispatch: a compositor is called for the
\* types image and text only
IsApplied(sig) == sig.type = "image" \/ sig.type = "text"

\* the first index from i on (0-indexed, as in the loop) whose signature
\* has a compositor called, Len(items) when there is none: no await lies
\* between the iterations before it
RECURSIVE NextAppliedIndex(_, _)
NextAppliedIndex(items, i) ==
  IF i >= Len(items) THEN Len(items)
  ELSE IF IsApplied(items[i + 1]) THEN i
  ELSE NextAppliedIndex(items, i + 1)

\* console.warn(`Unknown signature type`) of the iterations i .. j-1
RECURSIVE WarningsFor(_, _)
WarningsFor(i, j) == IF i >= j THEN <<>> ELSE <<i + 1>> \o WarningsFor(i + 1, j)

(***************************************************************************)
(* POST /apply-signatures                                                  *)
(***************************************************************************)
\* req.body.signatures: missing, or a JSON text that parses or does not
NoSignaturesField == [present |-> FALSE, parses |-> FALSE, value |-> <<>>]
BadJson == [present |-> TRUE, parses |-> FALSE, value |-> <<>>]
JsonOf(list) == [present |-> TRUE, parses |-> TRUE, value |-> list]

\* (a variant that takes the bytes kept with the shared queue)
ApplyInitialBytesShared(file) ==
  IF arrays[signatureQueue].hasPdfBytes
  THEN arrays[signatureQueue].pdfBytes
  ELSE file.buffer
\* let pdfBytes = req.file.buffer
ApplyInitialBytes(file) == file.buffer

\* (a variant that lets an empty array through)
NeverEmpty(signaturesArray) == FALSE
\* signaturesArray.length === 0
IsEmptyList(signaturesArray) == Len(signaturesArray) = 0

\* (a variant that forgets the + 1)
ErrorPositionZeroBased(i) == i
\* `Failed to apply signature ${i + 1}: ...`
ErrorPosition(i) == i + 1

\* (a variant that drops the assignment and keeps the old bytes)
KeepOldBytes(pdfBytes, result) == pdfBytes
\* pdfBytes = await signPdfWith...(pdfBytes, ...)
AssignResult(pdfBytes, result) == result.bytes

\* the loop of lines 142-162 from iteration i on, up to its next await or
\* to the response after the loop
ApplyLoop(h, i, pdfBytes) ==
  LET j == NextAppliedIndex(h.list, i)
      warned == [h EXCEPT !.warnings = @ \o WarningsFor(i, j), !.i = j,
                          !.pdfBytes = pdfBytes]
  IN IF j >= Len(h.list)
     THEN Respond(warned, PdfResponse(pdfBytes))
     ELSE [warned EXCEPT !.pc = "await",
                         !.calls = Append(@, StartedCall(j + 1, h.list[j + 1], pdfBytes))]

\* lines 112-149: the handler from its start to its first await or response
ApplyStart(file, signatures) ==
  LET h == [NewHandler("apply", file) EXCEPT !.signatures = signatures]
  IN
  IF ~file.present
  THEN Respond(h, JsonMsg(400, "No PDF file provided"))
  ELSE IF ~signatures.present
  THEN Respond(h, JsonMsg(400, "No signatures provided"))
  ELSE IF ~signatures.parses
  THEN Respond(h, ApplyErrorResponse(0, Err("SyntaxError")))
  ELSE IF IsEmptyList(signatures.value)
  THEN Respond(h, JsonMsg(400, "No signatures provided"))
  ELSE ApplyLoop([h EXCEPT !.list = signatures.value], 0, ApplyInitialBytes(file))

\* a POST /apply-signatures request arrives and its handler starts
ApplySignatures(files, bodies, limit) ==
  /\ Len(handlers) < limit
  /\ \E file \in files, signatures \in bodies :
       handlers' = Append(handlers, ApplyStart(file, signatures))
  /\ UNCHANGED <<arrays, signatureQueue, uploads, documents, cvars>>

\* (a variant that goes on with what a failed call left behind)
ApplyResumedInPlace(h) ==
  LET call == h.calls[Len(h.calls)]
      result == Compose(call.input, call.sig, {})
      logged == [h EXCEPT !.calls[Len(h.calls)] = ReturnedCall(call, result)]
  IN IF ~result.ok
     THEN ApplyLoop(logged, h.i + 1, Save(result.work))
     ELSE ApplyLoop(logged, h.i + 1, AssignResult(h.pdfBytes, result))
\* the awaited compositor call of handler r returns or throws
ApplyResumed(h) ==
  LET call == h.calls[Len(h.calls)]
      result == Compose(call.input, call.sig, {})
      logged == [h EXCEPT !.calls[Len(h.calls)] = ReturnedCall(call, result)]
  IN IF ~result.ok
     THEN Respond(logged, ApplyErrorResponse(ErrorPosition(h.i), result.error))
     ELSE ApplyLoop(logged, h.i + 1, AssignResult(h.pdfBytes, result))

ApplySignaturesResume ==
  /\ \E r \in 1..Len(handlers) :
       /\ handlers[r].route = "apply"
       /\ handlers[r].pc = "await"
       /\ handlers' = [handlers EXCEPT ![r] = ApplyResumed(handlers[r])]
  /\ UNCHANGED <<arrays, signatureQueue, uploads, documents, cvars>>


(***************************************************************************)
(* POST /sign-pdf                                                          *)
(***************************************************************************)
\* the value of a run of decimal digits
RECURSIVE DigitsValue(_, _)
DigitsValue(s, acc) ==
  IF s = <<>> THEN acc ELSE DigitsValue(Tail(s), 10 * acc + HexValue(Head(s)))

\* parseFloat / parseInt of a form field that holds an integer in decimal,
\* with or without a minus sign
ParseNumber(s) ==
  IF Head(s) = "-" THEN 0 - DigitsValue(Tail(s), 0) ELSE DigitsValue(s, 0)

\* req.body of a /sign-pdf request: every field is a string
SignForm(signatureType, signatureData, x, y, pageNumber, font, fontSize, color) ==
  [signatureType |-> signatureType, signatureData |-> signatureData, x |-> x,
   y |-> y, pageNumber |-> pageNumber, font |-> font, fontSize |-> fontSize,
   color |-> color]

\* lines 67-76: the object pushed on the queue
QueuedSignature(body) ==
  Signature(body.signatureType, body.signatureData, ParseNumber(body.x),
            ParseNumber(body.y), ParseNumber(body.pageNumber), body.font,
            ParseNumber(body.fontSize), body.color)

\* signatureQueue.push(signature), and the upload kept with the array when
\* the signature is its first
PushSignature(array, signature, file) ==
  LET pushed == [array EXCEPT !.items = Append(@, signature)]
  IN IF Len(pushed.items) = 1
     THEN [pushed EXCEPT !.hasPdfBytes = TRUE, !.pdfBytes = file.buffer]
     ELSE pushed

\* (a variant that leaves the queue as it is after signing)
KeepQueue(arrs, queue) == [arrays |-> arrs, queue |-> queue]
\* (a variant that empties the array object itself: signatureQueue.length = 0)
ClearQueueInPlace(arrs, queue) ==
  [arrays |-> [arrs EXCEPT ![queue] = EmptyArray], queue |-> queue]
\* signatureQueue = []: the variable is bound to a new array object; an
\* array a handler is iterating over stays as it is
ClearQueue(arrs, queue) == [arrays |-> Append(arrs, EmptyArray), queue |-> Len(arrs) + 1]

\* the loop of lines 86-92 over the array object h.arr from index i on, up
\* to its next await or to the response after the loop; the iterator reads
\* the length of the array anew at every step
SignLoop(h, i, signedPdfBytes, arrs, queue) ==
  LET items == arrs[h.arr].items
      j == NextAppliedIndex(items, i)
      moved == [h EXCEPT !.i = j, !.pdfBytes = signedPdfBytes]
  IN IF j >= Len(items)
     THEN [handler |-> Respond(moved, PdfResponse(signedPdfBytes)),
           heap |-> ClearQueue(arrs, queue)]
     ELSE [handler |->
             [moved EXCEPT !.pc = "await",
                           !.calls = Append(@, StartedCall(j + 1, items[j + 1],
                                                           signedPdfBytes))],
           heap |-> [arrays |-> arrs, queue |-> queue]]

\* the /sign-pdf handlers suspended at an await
SigningInFlight ==
  {r \in 1..Len(handlers) : handlers[r].route = "sign" /\ handlers[r].pc = "await"}

\* lines 59-92: the handler from its start to its first await or response
SignStart(file, body) ==
  LET signature == QueuedSignature(body)
      arrs == [arrays EXCEPT ![signatureQueue] = PushSignature(@, signature, file)]
      h == [NewHandler("sign", file) EXCEPT !.list = <<signature>>,
                                            !.arr = signatureQueue,
                                            !.own = Len(arrs[signatureQueue].items),
                                            !.overlapped = SigningInFlight # {}]
  IN SignLoop(h, 0, arrs[signatureQueue].pdfBytes, arrs, signatureQueue)

\* a POST /sign-pdf request arrives and its handler starts
SignPdf(files, forms) ==
  /\ Len(handlers) < MaxRequests
  /\ \E file \in files, body \in forms :
       IF ~file.present
       THEN /\ handlers' = Append(handlers,
                 Respond(NewHandler("sign", NoFile),
                         JsonMsg(400, "No PDF file provided for signing")))
            /\ UNCHANGED <<arrays, signatureQueue>>
       ELSE LET run == SignStart(file, body)
            IN /\ handlers' =
                    Append([r \in 1..Len(handlers) |->
                              IF r \in SigningInFlight
                              THEN [handlers[r] EXCEPT !.overlapped = TRUE]
                              ELSE handlers[r]],
                           run.handler)
               /\ arrays' = run.heap.arrays
               /\ signatureQueue' = run.heap.queue
  /\ UNCHANGED <<uploads, documents, cvars>>

\* the awaited compositor call of a /sign-pdf handler returns or throws
SignResumed(h) ==
  LET call == h.calls[Len(h.calls)]
      result == Compose(call.input, call.sig, {})
      logged == [h EXCEPT !.calls[Len(h.calls)] = ReturnedCall(call, result)]
  IN IF ~result.ok
     THEN [handler |-> Respond(logged, TextResponse(500, "Server Error during PDF signing")),
           heap |-> [arrays |-> arrays, queue |-> signatureQueue]]
     ELSE SignLoop(logged, h.i + 1, result.bytes, arrays, signatureQueue)

SignPdfResume ==
  /\ \E r \in 1..Len(handlers) :
       /\ handlers[r].route = "sign"
       /\ handlers[r].pc = "await"
       /\ LET run == SignResumed(handlers[r])
          IN /\ handlers' = [handlers EXCEPT ![r] = run.handler]
             /\ arrays' = run.heap.arrays
             /\ signatureQueue' = run.heap.queue
  /\ UNCHANGED <<uploads, documents, cvars>>

(***************************************************************************)
(* POST /upload-pdf                                                        *)
(***************************************************************************)
\* req.file.originalname of the uploads of the model
UploadName == "document.pdf"

\* lines 23-34: no file, or the queue is cleared and the file is written
UploadPdf(files) ==
  /\ Len(handlers) < MaxRequests
  /\ \E file \in files :
       IF ~file.present
       THEN /\ handlers' = Append(handlers,
                 Respond(NewHandler("upload", NoFile), JsonMsg(400, "No PDF file uploaded")))
            /\ UNCHANGED <<arrays, signatureQueue>>
       ELSE /\ handlers' = Append(handlers,
                 [NewHandler("upload", file) EXCEPT !.pc = "writeFile"])
            /\ arrays' = ClearQueue(arrays, signatureQueue).arrays
            /\ signatureQueue' = ClearQueue(arrays, signatureQueue).queue
  /\ UNCHANGED <<uploads, documents, cvars>>

\* await fs.writeFile(...) ends: the file is there, or the catch answers
UploadWritten ==
  /\ \E r \in 1..Len(handlers), written \in BOOLEAN :
       /\ handlers[r].route = "upload"
       /\ handlers[r].pc = "writeFile"
       /\ IF written
          THEN /\ uploads' = uploads \cup {UploadName}
               /\ handlers' = [handlers EXCEPT ![r].pc = "save"]
          ELSE /\ uploads' = uploads
               /\ handlers' = [handlers EXCEPT
                                 ![r] = Respond(@, TextResponse(500, "Server Error"))]
  /\ UNCHANGED <<arrays, signatureQueue, documents, cvars>>

\* await newDocument.save() ends: the record is there, or the catch answers
UploadSaved ==
  /\ \E r \in 1..Len(handlers), saved \in BOOLEAN :
       /\ handlers[r].route = "upload"
       /\ handlers[r].pc = "save"
       /\ IF saved
          THEN /\ documents' = Append(documents, UploadName)
               /\ handlers' = [handlers EXCEPT
                                 ![r] = Respond(@, JsonMsg(200, "PDF uploaded successfully"))]
          ELSE /\ documents' = documents
               /\ handlers' = [handlers EXCEPT
                                 ![r] = Respond(@, TextResponse(500, "Server Error"))]
  /\ UNCHANGED <<arrays, signatureQueue, uploads, cvars>>

(***************************************************************************)
(* Spec: the server with up to MaxRequests requests of the three routes,   *)
(* in every interleaving of their handlers.                                *)
(***************************************************************************)
FormText1 ==
  SignForm("text", <<"Jane Doe">>, <<"1", "0", "0">>, <<"3", "0", "0">>, <<"1">>,
           "Helvetica", <<"2", "4">>, BlackHex)
FormJpeg1 ==
  SignForm("image", JpegUrl, <<"-", "5">>, <<"5", "0">>, <<"1">>, NoFontName, <<"0">>, <<>>)
FormPng2 ==
  SignForm("image", PngUrl, <<"5", "0", "0">>, <<"7", "0", "0">>, <<"2">>,
           NoFontName, <<"0">>, <<>>)
FormStamp1 ==
  SignForm("stamp", <<"Approved">>, <<"1", "0", "0">>, <<"3", "0", "0">>, <<"1">>,
           NoFontName, <<"0">>, <<>>)


(***************************************************************************)
(* SpecBatch: one POST /apply-signatures request, with every list of up to *)
(* MaxBatch of the signatures below.                                       *)
(***************************************************************************)
TextOnPage1 == TextSignature(100, 300, 1, "Helvetica", BlackHex)
PngOnPage2 == ImageSignature(PngUrl, 500, 700, 2)
JpegOnPage1 == ImageSignature(JpegUrl, 0 - 5, 50, 1)
GifOnPage1 == ImageSignature(GifUrl, 100, 300, 1)
TextOnPage3 == TextSignature(100, 300, 3, "courier", OrangeHex)
StampOnPage1 == Signature("stamp", <<"Approved">>, 100, 300, 1, NoFontName, 0, <<>>)

BatchSignatures ==
  {TextOnPage1, PngOnPage2, JpegOnPage1, GifOnPage1, TextOnPage3, StampOnPage1}
BatchLists == UNION {[1..n -> BatchSignatures] : n \in 0..MaxBatch}
BatchFiles == {NoFile, File(OnePagePdf), File(TwoPagePdf), File(MalformedPdf)}
BatchBodies == {NoSignaturesField, BadJson} \cup {JsonOf(list) : list \in BatchLists}

InitBatch == InitServer /\ InitNoCall
NextBatch ==
  \/ ApplySignatures(BatchFiles, BatchBodies, 1)
  \/ ApplySignaturesResume
SpecBatch == InitBatch /\ [][NextBatch]_vars


ServerForms == {FormText1, FormJpeg1, FormPng2, FormStamp1}
ServerFiles == {NoFile, File(OnePagePdf), File(TwoPagePdf)}
ServerBodies ==
  {JsonOf(<<TextOnPage1>>), JsonOf(<<PngOnPage2, TextOnPage1>>),
   JsonOf(<<StampOnPage1, JpegOnPage1>>)}
UploadFiles == {NoFile, File(OnePagePdf)}

Init == InitServer /\ InitNoCall
Next ==
  \/ UploadPdf(UploadFiles)
  \/ UploadWritten
  \/ UploadSaved
  \/ SignPdf(ServerFiles, ServerForms)
  \/ SignPdfResume
  \/ ApplySignatures(ServerFiles, ServerBodies, MaxRequests)
  \/ ApplySignaturesResume
Spec == Init /\ [][Next]_vars


(***************************************************************************)
(* SpecSequential: POST /sign-pdf requests issued one after another, each  *)
(* when the one before it has been answered.                               *)
(***************************************************************************)
\* no handler is suspended at an await
AllAnswered == \A r \in 1..Len(handlers) : handlers[r].pc = "done"

SignPdfAlone == AllAnswered /\ SignPdf(ServerFiles, ServerForms)
NextSequential ==
  \/ SignPdfAlone
  \/ SignPdfResume
SpecSequential == Init /\ [][NextSequential]_vars

(***************************************************************************)
(* Claims about the compositors (SpecCompositor, SpecChain).               *)
(***************************************************************************)
\* the last call was made on bytes that parse
CalledOnParseable == cCall.made /\ cInput.valid
\* nothing was drawn by the last call: the pages of the working document
\* are those of the input
NothingDrawn == cResult.work.pages = cInput.pages
NothingEmbedded == cResult.work.images = <<>> /\ cResult.work.fonts = <<>>
PageOutside ==
  cCall.sig.pageNumber < 1 \/ cCall.sig.pageNumber > Len(cInput.pages)

\* C7: on a parseable PDF, a page number outside [1, pageCount] makes both
\* compositors fail with the page-out-of-bounds error, which names the
\* requested page and the page count, whatever the other arguments are, and
\* with nothing embedded and nothing drawn
C7_PageOutOfBounds ==
  (CalledOnParseable /\ PageOutside) =>
     /\ ~cResult.ok
     /\ cResult.error.kind = "PageOutOfBounds"
     /\ cResult.error.page = cCall.sig.pageNumber
     /\ cResult.error.count = Len(cInput.pages)
     /\ NothingEmbedded
     /\ NothingDrawn

\* a two page document asked for page 3 with a payload that has no base64
\* part: the page error comes first
C7_Witness ==
  /\ CalledOnParseable
  /\ cInput = TwoPagePdf
  /\ cCall.sig.type = "image"
  /\ cCall.sig.pageNumber = 3
  /\ cCall.sig.data = GifNoCommaUrl
  /\ cResult.error.kind = "PageOutOfBounds"

\* the payload's prefix is neither data:image/png nor data:image/jpeg
PrefixUnsupported ==
  /\ cCall.sig.data[1] # "data:image/png"
  /\ cCall.sig.data[1] # "data:image/jpeg"

\* C9: on a parseable PDF and a page in range, signPdfWithImage fails with
\* the unsupported-image-format error for every payload whose prefix is
\* neither PNG nor JPEG, a payload without a base64 part included, and
\* nothing is drawn
C9_UnsupportedFormat ==
  (CalledOnParseable /\ cCall.sig.type = "image" /\ ~PageOutside /\ PrefixUnsupported) =>
     /\ ~cResult.ok
     /\ cResult.error.kind = "UnsupportedImageFormat"
     /\ NothingDrawn

\* the font a name stands for: the table of the claim, matched without
\* regard to case; Helvetica for every other name and for a missing one
C10_TableFont(name) ==
  CASE name = "Helvetica" -> "Helvetica"
    [] name = "HELVETICA-BOLD" -> "Helvetica-Bold"
    [] name = "Times-Roman" -> "Times-Roman"
    [] name = "courier" -> "Courier"
    [] OTHER -> "Helvetica"
C10_ExpectedFont ==
  IF C10_TableFont(cCall.sig.font) \in cCall.failing
  THEN "Helvetica"
  ELSE C10_TableFont(cCall.sig.font)
\* the element the last call drew: the last one of its page
C10_Drawn ==
  LET content == cResult.work.pages[cCall.sig.pageNumber].content
  IN content[Len(content)]

C10_WitnessUnmatched ==
  /\ cCall.made /\ cResult.ok /\ cCall.sig.type = "text"
  /\ cCall.sig.font = "Comic-Sans-9000"
  /\ C10_Drawn.font = "Helvetica"
C10_WitnessMatched ==
  /\ cCall.made /\ cResult.ok /\ cCall.sig.type = "text"
  /\ cCall.sig.font = "HELVETICA-BOLD"
  /\ C10_Drawn.font = "Helvetica-Bold"

\* the last call was given a request the compositors are meant to apply: a
\* page in range, and a PNG or JPEG payload or a colour that parses
C8_Applicable ==
  /\ CalledOnParseable
  /\ ~PageOutside
  /\ cCall.sig.type = "image" => cCall.sig.data \in {PngUrl, JpegUrl}
  /\ cCall.sig.type = "text" => hexToRgb(cCall.sig.color).ok

\* how many of the fulfilled calls named page p
RECURSIVE C8_Named(_, _)
C8_Named(pages, p) ==
  IF pages = <<>> THEN 0
  ELSE (IF pages[1] = p THEN 1 ELSE 0) + C8_Named(Tail(pages), p)

\* C8: a compositor call on a parseable PDF with a page in range succeeds
\* and returns a document with the same number of pages, one more element
\* on the page named and every other page unchanged; so after n fulfilled
\* calls chained on their outputs the page count is the original one and n
\* elements were added, each on the page its call named
C8_OneElementPerCall ==
  /\ C8_Applicable =>
       /\ cResult.ok
       /\ PageCount(cResult.bytes) = PageCount(cInput)
       /\ \A q \in 1..PageCount(cInput) :
            IF q = cCall.sig.pageNumber
            THEN /\ ElementsOn(cResult.bytes, q) = ElementsOn(cInput, q) + 1
                 /\ SubSeq(cResult.bytes.pages[q].content, 1, ElementsOn(cInput, q))
                      = cInput.pages[q].content
            ELSE cResult.bytes.pages[q] = cInput.pages[q]
  /\ PageCount(NextInput) = PageCount(cOrig)
  /\ ElementCount(NextInput) = ElementCount(cOrig) + Len(cPages)
  /\ \A q \in 1..PageCount(cOrig) :
       ElementsOn(NextInput, q) = ElementsOn(cOrig, q) + C8_Named(cPages, q)

\* two calls chained on a two page document, the second on page 2
C8_Witness ==
  /\ cOrig = TwoPagePdf
  /\ cPages = <<1, 2>>
  /\ cResult.ok
  /\ cCall.sig.type = "text"
  /\ ElementsOn(cResult.bytes, 1) = 1
  /\ ElementsOn(cResult.bytes, 2) = 1

\* the last call with the same arguments but (x, y) well inside the page
C11_Reference ==
  Compose(cInput, [cCall.sig EXCEPT !.x = 100, !.y = 300], cCall.failing)

\* C11: coordinates outside the page are never an error: whether a
\* compositor call succeeds, and with which error it fails, is the same as
\* for the call with (x, y) inside the page; on a parseable PDF and a page
\* in range a warning is logged exactly when x < 0 or y < 0 or x > pageWidth
\* or y > pageHeight; and the element is drawn at the requested (x, y)
C11_CoordinatesNeverAnError ==
  cCall.made =>
    /\ cResult.ok = C11_Reference.ok
    /\ cResult.error = C11_Reference.error
    /\ (CalledOnParseable /\ ~PageOutside) =>
         LET page == cInput.pages[cCall.sig.pageNumber]
         IN /\ cResult.warned =
                 (\/ cCall.sig.x < 0
                  \/ cCall.sig.y < 0
                  \/ cCall.sig.x > page.width
                  \/ cCall.sig.y > page.height)
            /\ cResult.ok =>
                 /\ C10_Drawn.x = cCall.sig.x
                 /\ C10_Drawn.y = cCall.sig.y

\* an image right of and above the narrow page: warned, and drawn there
C11_Witness ==
  /\ cCall.made /\ cInput = TwoPagePdf
  /\ cCall.sig.type = "image" /\ cCall.sig.pageNumber = 2
  /\ cCall.sig.x = 500 /\ cCall.sig.y = 700
  /\ cResult.ok /\ cResult.warned
  /\ C10_Drawn.x = 500 /\ C10_Drawn.y = 700

\* the value of the two hex digits of s at positions k and k + 1 (from 1)
C14_Pair(s, k) == 16 * HexValue(s[k]) + HexValue(s[k + 1])
\* the six digits of a colour string, its leading '#' left out
C14_Digits(hex) == IF hex[1] = "#" THEN Tail(hex) ELSE hex

\* C14 as claimed: the leading '#' is optional: '#RRGGBB' and 'RRGGBB' both
\* resolve to the channels (value(RR), value(GG), value(BB)) out of 255
C14_HashOptional ==
  cCall.made =>
    /\ cResult.ok
    /\ C10_Drawn.r = C14_Pair(C14_Digits(cCall.sig.color), 1)
    /\ C10_Drawn.g = C14_Pair(C14_Digits(cCall.sig.color), 3)
    /\ C10_Drawn.b = C14_Pair(C14_Digits(cCall.sig.color), 5)

\* C14 as amended: the leading '#' is required: '#RRGGBB' resolves to the
\* channels (value(RR), value(GG), value(BB)) out of 255, while the first
\* character of 'RRGGBB' is skipped unread, so that it resolves to the
\* values of its characters 2-3, 4-5 and 6
C14_HashRequired ==
  cCall.made =>
    /\ cResult.ok
    /\ IF cCall.sig.color[1] = "#"
       THEN /\ C10_Drawn.r = C14_Pair(cCall.sig.color, 2)
            /\ C10_Drawn.g = C14_Pair(cCall.sig.color, 4)
            /\ C10_Drawn.b = C14_Pair(cCall.sig.color, 6)
       ELSE /\ C10_Drawn.r = C14_Pair(cCall.sig.color, 2)
            /\ C10_Drawn.g = C14_Pair(cCall.sig.color, 4)
            /\ C10_Drawn.b = HexValue(cCall.sig.color[6])

\* '#FF900a' is drawn as (255, 144, 10)
C14_Witness ==
  /\ cCall.made /\ cResult.ok
  /\ cCall.sig.color = <<"#", "F", "F", "9", "0", "0", "a">>
  /\ C10_Drawn.r = 255 /\ C10_Drawn.g = 144 /\ C10_Drawn.b = 10

(***************************************************************************)
(* Claims about the batch pipeline, POST /apply-signatures (SpecBatch).    *)
(***************************************************************************)
ApplyHandlers == {r \in 1..Len(handlers) : handlers[r].route = "apply"}
\* the handlers that got as far as the loop over a list
BatchHandlers == {r \in ApplyHandlers : handlers[r].list # <<>>}

\* the ordered fold of the claim: each image or text request applied to the
\* bytes the request before it left, the others passed over; it stops at the
\* first call that fails
RECURSIVE C1_Fold(_, _)
C1_Fold(pdfBytes, list) ==
  IF list = <<>> THEN [ok |-> TRUE, bytes |-> pdfBytes]
  ELSE IF Head(list).type \notin {"image", "text"} THEN C1_Fold(pdfBytes, Tail(list))
  ELSE LET result == Compose(pdfBytes, Head(list), {})
       IN IF result.ok THEN C1_Fold(result.bytes, Tail(list))
          ELSE [ok |-> FALSE, bytes |-> pdfBytes]

\* C1: the requests of a batch are applied in list order and one at a time:
\* a compositor call starts only when every call before it has returned, it
\* is given the bytes the call before it returned (the uploaded bytes for
\* the first), no image or text request before it was passed over, and the
\* bytes of a successful response are the ordered fold over the whole list
C1_SequentialFold ==
  \A r \in BatchHandlers :
    LET h == handlers[r]
        n == Len(h.calls)
    IN /\ \A k \in 1..n :
            /\ h.calls[k].sig = h.list[h.calls[k].position]
            /\ h.calls[k].input =
                 IF k = 1 THEN h.file.buffer ELSE h.calls[k - 1].bytes
            /\ k < n => /\ h.calls[k].returned
                        /\ h.calls[k].ok
                        /\ h.calls[k].position < h.calls[k + 1].position
       /\ n > 0 =>
            {h.calls[k].position : k \in 1..n}
              = {p \in 1..h.calls[n].position : h.list[p].type \in {"image", "text"}}
       /\ (h.pc = "await") = (n > 0 /\ ~h.calls[n].returned)
       /\ h.response.kind = "pdf" =>
            /\ C1_Fold(h.file.buffer, h.list).ok
            /\ h.response.bytes = C1_Fold(h.file.buffer, h.list).bytes

\* a batch of three on a two page document, answered with the three
\* elements in order
C1_Witness ==
  \E r \in BatchHandlers :
    /\ handlers[r].list = <<TextOnPage1, PngOnPage2, JpegOnPage1>>
    /\ handlers[r].file.buffer = TwoPagePdf
    /\ handlers[r].response.kind = "pdf"
    /\ Len(handlers[r].calls) = 3
    /\ ElementsOn(handlers[r].response.bytes, 1) = 2
    /\ handlers[r].response.bytes.pages[1].content[1].kind = "text"
    /\ ElementsOn(handlers[r].response.bytes, 2) = 1

\* the position (1-indexed) of the first request of the list whose
\* compositor call fails, 0 when none does
RECURSIVE C2_FirstFailing(_, _, _)
C2_FirstFailing(pdfBytes, list, position) ==
  IF position > Len(list) THEN 0
  ELSE IF list[position].type \notin {"image", "text"}
  THEN C2_FirstFailing(pdfBytes, list, position + 1)
  ELSE LET result == Compose(pdfBytes, list[position], {})
       IN IF result.ok THEN C2_FirstFailing(result.bytes, list, position + 1)
          ELSE position

\* the error the compositor throws for the request at `position`
RECURSIVE C2_ErrorAt(_, _, _)
C2_ErrorAt(pdfBytes, list, position) ==
  IF position > Len(list) THEN NoError
  ELSE IF list[position].type \notin {"image", "text"}
  THEN C2_ErrorAt(pdfBytes, list, position + 1)
  ELSE LET result == Compose(pdfBytes, list[position], {})
       IN IF result.ok THEN C2_ErrorAt(result.bytes, list, position + 1)
          ELSE result.error

\* C2: when request k is the first of the list whose compositor call fails,
\* no compositor call is ever made for a request after k, and the response
\* carries no PDF bytes, names position k and holds the underlying error
C2_AbortAtFirstFailure ==
  \A r \in BatchHandlers :
    LET h == handlers[r]
        k == C2_FirstFailing(h.file.buffer, h.list, 1)
    IN k # 0 =>
         /\ \A c \in 1..Len(h.calls) : h.calls[c].position <= k
         /\ h.pc = "done" =>
              /\ h.calls[Len(h.calls)].position = k
              /\ ~h.calls[Len(h.calls)].ok
              /\ h.response.sent
              /\ h.response.kind # "pdf"
              /\ h.response.bytes = NoResponse.bytes
              /\ h.response.position = k
              /\ h.response.error = C2_ErrorAt(h.file.buffer, h.list, 1)
              /\ h.response.error # NoError

\* the second of three requests has an unsupported payload
C2_Witness ==
  \E r \in BatchHandlers :
    /\ handlers[r].list = <<TextOnPage1, GifOnPage1, JpegOnPage1>>
    /\ handlers[r].file.buffer = OnePagePdf
    /\ handlers[r].pc = "done"
    /\ Len(handlers[r].calls) = 2
    /\ handlers[r].response.position = 2
    /\ handlers[r].response.error.kind = "UnsupportedImageFormat"

\* C5: a batch with an empty request list is answered with the error
\* "No signatures provided"; no compositor is called and no PDF bytes are
\* returned
C5_EmptyListRejected ==
  \A r \in ApplyHandlers :
    LET h == handlers[r]
    IN (h.file.present /\ h.signatures = JsonOf(<<>>)) =>
         /\ h.pc = "done"
         /\ h.response.sent
         /\ h.response.kind = "json"
         /\ h.response.body = "No signatures provided"
         /\ h.response.status # 200
         /\ h.response.bytes = NoResponse.bytes
         /\ h.calls = <<>>

C5_Witness ==
  \E r \in ApplyHandlers :
    /\ handlers[r].file = File(OnePagePdf)
    /\ handlers[r].signatures = JsonOf(<<>>)
    /\ handlers[r].response.body = "No signatures provided"

\* the requests of a list whose type is image or text
RECURSIVE C6_Known(_)
C6_Known(list) ==
  IF list = <<>> THEN <<>>
  ELSE IF Head(list).type \in {"image", "text"}
       THEN <<Head(list)>> \o C6_Known(Tail(list))
       ELSE C6_Known(Tail(list))

\* every request of the list applied in turn, none passed over
RECURSIVE C6_ApplyAll(_, _)
C6_ApplyAll(pdfBytes, list) ==
  IF list = <<>> THEN [ok |-> TRUE, bytes |-> pdfBytes]
  ELSE LET result == Compose(pdfBytes, Head(list), {})
       IN IF result.ok THEN C6_ApplyAll(result.bytes, Tail(list))
          ELSE [ok |-> FALSE, bytes |-> pdfBytes]

\* C6: a request whose type is neither image nor text is skipped: no
\* compositor is called for it, a warning is logged for it, and the batch
\* ends as it would without it: the same bytes when it succeeds, and a
\* failure only when a request of a known type fails
C6_UnknownTypeSkipped ==
  \A r \in BatchHandlers :
    LET h == handlers[r]
        without == C6_ApplyAll(h.file.buffer, C6_Known(h.list))
    IN /\ \A c \in 1..Len(h.calls) : h.calls[c].sig.type \in {"image", "text"}
       /\ {h.warnings[w] : w \in 1..Len(h.warnings)}
            = {p \in 1..h.i : h.list[p].type \notin {"image", "text"}}
       /\ h.pc = "done" =>
            /\ (h.response.kind = "pdf") = without.ok
            /\ without.ok => h.response.bytes = without.bytes

\* an unknown type between two known ones: both are applied
C6_Witness ==
  \E r \in BatchHandlers :
    /\ handlers[r].list = <<TextOnPage1, StampOnPage1, JpegOnPage1>>
    /\ handlers[r].file.buffer = OnePagePdf
    /\ handlers[r].response.kind = "pdf"
    /\ handlers[r].warnings = <<2>>
    /\ Len(handlers[r].calls) = 2
    /\ ElementsOn(handlers[r].response.bytes, 1) = 2

\* the calls of handler h that returned bytes
C15_Fulfilled(h) == {k \in 1..Len(h.calls) : h.calls[k].returned /\ h.calls[k].ok}
\* the greatest element of a non-empty set of numbers
C15_Last(set) == CHOOSE k \in set : \A j \in set : j <= k

\* C15: a compositor call applies its signature wholly or not at all and
\* leaves the bytes it was given as they were: in a batch the uploaded
\* buffer stays as uploaded, the working bytes are always the output of the
\* last fulfilled call (the uploaded bytes when there is none), a fulfilled
\* call returns its input with one more element, and when a call fails the
\* working bytes are the bytes it was given and no PDF is answered
C15_AtomicSteps ==
  \A r \in BatchHandlers :
    LET h == handlers[r]
        n == Len(h.calls)
        done == C15_Fulfilled(h)
    IN /\ n > 0 => h.calls[1].input = h.file.buffer
       /\ h.pdfBytes =
            IF done = {} THEN h.file.buffer ELSE h.calls[C15_Last(done)].bytes
       /\ \A k \in 1..n :
            h.calls[k].returned =>
              IF h.calls[k].ok
              THEN /\ h.calls[k].bytes.valid
                   /\ PageCount(h.calls[k].bytes) = PageCount(h.calls[k].input)
                   /\ ElementCount(h.calls[k].bytes)
                        = ElementCount(h.calls[k].input) + 1
              ELSE /\ k = n
                   /\ h.pc = "done"
                   /\ h.pdfBytes = h.calls[k].input
                   /\ h.response.kind # "pdf"
                   /\ h.response.bytes = NoResponse.bytes

\* the second request of a batch names a page the document does not have:
\* the working bytes are the output of the first, with its one signature
C15_Witness ==
  \E r \in BatchHandlers :
    /\ handlers[r].list = <<JpegOnPage1, TextOnPage3>>
    /\ handlers[r].file.buffer = OnePagePdf
    /\ handlers[r].pc = "done"
    /\ Len(handlers[r].calls) = 2
    /\ ~handlers[r].calls[2].ok
    /\ ElementCount(handlers[r].pdfBytes) = 1
    /\ handlers[r].pdfBytes = handlers[r].calls[1].bytes

\* C17 as claimed: a batch answered with a PDF had at least one compositor
\* call made and fulfilled, and never returns the uploaded document as it
\* was, also when every request of a non-empty list has an unknown type
C17_SuccessAppliesOne ==
  \A r \in ApplyHandlers :
    LET h == handlers[r]
    IN h.response.kind = "pdf" =>
         /\ C15_Fulfilled(h) # {}
         /\ h.response.bytes # h.file.buffer

\* C17 as amended: a batch answered with a PDF had a non-empty list, and
\* each of its image and text requests applied by a fulfilled compositor
\* call, one element each; requests of an unknown type are skipped, so a
\* list that holds no others is answered the uploaded document unchanged,
\* with no compositor called
C17_SuccessAppliesKnown ==
  \A r \in ApplyHandlers :
    LET h == handlers[r]
        known == {p \in 1..Len(h.list) : h.list[p].type \in {"image", "text"}}
    IN h.response.kind = "pdf" =>
         /\ h.list # <<>>
         /\ {h.calls[k].position : k \in C15_Fulfilled(h)} = known
         /\ Cardinality(C15_Fulfilled(h)) = Len(h.calls)
         /\ ElementCount(h.response.bytes)
              = ElementCount(h.file.buffer) + Cardinality(known)
         /\ known = {} => h.response.bytes = h.file.buffer

\* a list of two requests of an unknown type: answered the upload unchanged
C17_Witness ==
  \E r \in ApplyHandlers :
    /\ handlers[r].list = <<StampOnPage1, StampOnPage1>>
    /\ handlers[r].file.buffer = TwoPagePdf
    /\ handlers[r].response.kind = "pdf"
    /\ handlers[r].response.bytes = TwoPagePdf
    /\ handlers[r].calls = <<>>

(***************************************************************************)
(* Claims about concurrent requests (Spec).                                *)
(***************************************************************************)
\* what a /apply-signatures request is answered when it runs alone: a
\* function of its own upload and its own signature list
C3_Alone(file, signatures) ==
  IF ~file.present THEN JsonMsg(400, "No PDF file provided")
  ELSE IF ~signatures.present \/ (signatures.parses /\ signatures.value = <<>>)
  THEN JsonMsg(400, "No signatures provided")
  ELSE IF ~signatures.parses THEN ApplyErrorResponse(0, Err("SyntaxError"))
  ELSE IF C1_Fold(file.buffer, signatures.value).ok
  THEN PdfResponse(C1_Fold(file.buffer, signatures.value).bytes)
  ELSE ApplyErrorResponse(C2_FirstFailing(file.buffer, signatures.value, 1),
                          C2_ErrorAt(file.buffer, signatures.value, 1))

\* C3: whatever requests of the three routes run at the same time, and
\* however their handlers interleave, a /apply-signatures request is
\* answered as if it ran alone: with what its own upload and its own list
\* determine
C3_BatchIsolated ==
  \A r \in ApplyHandlers :
    handlers[r].pc = "done" =>
      handlers[r].response = C3_Alone(handlers[r].file, handlers[r].signatures)

\* a batch answered with its PDF while a /sign-pdf handler that started
\* before it is suspended and the shared queue holds that request's upload
C3_Witness ==
  \E r \in ApplyHandlers, s \in SigningInFlight :
    /\ s < r
    /\ handlers[r].response.kind = "pdf"
    /\ Len(handlers[r].calls) = 2
    /\ arrays[signatureQueue].hasPdfBytes
    /\ arrays[signatureQueue].pdfBytes # handlers[r].file.buffer

SignHandlers == {r \in 1..Len(handlers) : handlers[r].route = "sign"}

\* the PDF answered to /sign-pdf handler r is not what its own upload and
\* its own signature give
C4_Foreign(r) ==
  LET h == handlers[r]
      alone == C1_Fold(h.file.buffer, h.list)
  IN /\ h.response.kind = "pdf"
     /\ ~alone.ok \/ h.response.bytes # alone.bytes

\* C4: the shared queue does not isolate /sign-pdf requests that are in
\* flight together: a PDF that holds another caller's signature or comes
\* from another caller's upload can be answered (C4_Witness), and it is
\* answered only to a request whose handler ran while another /sign-pdf
\* handler was suspended at an await of its loop
C4_ForeignOnlyWhenOverlapped ==
  \A r \in SignHandlers : C4_Foreign(r) => handlers[r].overlapped

\* A uploads one page and a text, B two pages and an image while A is
\* suspended: A is answered a PDF that holds B's image, and B a PDF made
\* from A's one page upload
C4_Witness ==
  /\ Len(handlers) = 2
  /\ handlers[1].route = "sign" /\ handlers[2].route = "sign"
  /\ handlers[1].file = File(OnePagePdf) /\ handlers[1].list = <<TextOnPage1>>
  /\ handlers[2].file = File(TwoPagePdf) /\ handlers[2].list = <<JpegOnPage1>>
  /\ handlers[1].response.kind = "pdf"
  /\ handlers[2].response.kind = "pdf"
  /\ ElementsOn(handlers[1].response.bytes, 1) = 2
  /\ handlers[1].response.bytes.pages[1].content[2].kind = "image"
  /\ PageCount(handlers[2].response.bytes) = 1
  /\ C4_Foreign(1) /\ C4_Foreign(2)

(***************************************************************************)
(* Claims about the responses of the signing endpoints (Spec).             *)
(***************************************************************************)
\* the handlers of the two signing endpoints that have answered
SigningDone ==
  {r \in ApplyHandlers \cup SignHandlers : handlers[r].pc = "done"}
\* the handlers among them whose last compositor call threw
SigningFailed ==
  {r \in SigningDone :
     /\ handlers[r].calls # <<>>
     /\ handlers[r].calls[Len(handlers[r].calls)].returned
     /\ ~handlers[r].calls[Len(handlers[r].calls)].ok}
FailedCall(r) == handlers[r].calls[Len(handlers[r].calls)]

\* C12: a signing request that fails with a request-shape error (page out
\* of bounds, unsupported image format, no signatures provided) is answered
\* with status 400, and one that fails because the uploaded bytes are not a
\* parseable PDF with status 500
C12_StatusByErrorKind ==
  /\ \A r \in SigningFailed :
        /\ FailedCall(r).error.kind \in {"PageOutOfBounds", "UnsupportedImageFormat"}
             => handlers[r].response.status = 400
        /\ FailedCall(r).error.kind = "MalformedDocument"
             => handlers[r].response.status = 500
  /\ \A r \in SigningDone :
        handlers[r].response.body = "No signatures provided"
          => handlers[r].response.status = 400

\* C13: whenever applying a signature fails inside /apply-signatures or
\* /sign-pdf, the response carries the position of the failing signature
\* and the underlying error, never only a generic server-error text
C13_FailureSurfaced ==
  \A r \in SigningFailed :
    /\ handlers[r].response.sent
    /\ handlers[r].response.position = FailedCall(r).position
    /\ handlers[r].response.error = FailedCall(r).error
    /\ handlers[r].response.error # NoError

(***************************************************************************)
(* Claims about the shared queue of POST /sign-pdf (SpecSequential, Spec). *)
(***************************************************************************)
\* C16: when /sign-pdf requests are issued one after another, the shared
\* queue is empty after every request, answered with a PDF or with an
\* error; hence every request that is valid by itself is answered the PDF
\* its own upload and its own signature give, also after a failed one
C16_QueueEmptyAfterEach ==
  AllAnswered =>
    /\ arrays[signatureQueue].items = <<>>
    /\ \A r \in SignHandlers :
         LET h == handlers[r]
             alone == C1_Fold(h.file.buffer, h.list)
         IN (h.file.present /\ alone.ok) =>
              /\ h.response.kind = "pdf"
              /\ h.response.bytes = alone.bytes

\* the /sign-pdf handlers that pushed a signature
Queueing == {r \in SignHandlers : handlers[r].file.present}

\* C18: however /sign-pdf and /upload-pdf requests interleave, rebinding
\* signatureQueue never takes a signature from the array a handler iterates
\* over: its own signature stays where it was pushed and each of its calls
\* is for the signature at the place it had reached; so a request answered
\* with a PDF had its own signature, when of type image or text, applied
\* by a fulfilled call of the chain of calls that gave the answered bytes
C18_OwnSignatureApplied ==
  \A r \in Queueing :
    LET h == handlers[r]
        items == arrays[h.arr].items
        n == Len(h.calls)
    IN /\ h.own >= 1 /\ h.own <= Len(items)
       /\ items[h.own] = h.list[1]
       /\ \A k \in 1..n :
            /\ h.calls[k].position <= Len(items)
            /\ h.calls[k].sig = items[h.calls[k].position]
       /\ h.response.kind = "pdf" =>
            /\ \A k \in 1..n : h.calls[k].returned /\ h.calls[k].ok
            /\ \A k \in 2..n : h.calls[k].input = h.calls[k - 1].bytes
            /\ n > 0 => h.response.bytes = h.calls[n].bytes
            /\ h.list[1].type \in {"image", "text"} =>
                 \E k \in 1..n : h.calls[k].position = h.own

\* B pushes behind A's signature while A is suspended, and A ends first
\* and rebinds the queue while B is still suspended in the array they
\* share: B is answered a PDF with its own signature applied
C18_Witness ==
  /\ Len(handlers) = 2
  /\ handlers[1].route = "sign" /\ handlers[2].route = "sign"
  /\ handlers[1].arr = handlers[2].arr
  /\ handlers[2].own = 2
  /\ signatureQueue # handlers[2].arr
  /\ handlers[2].response.kind = "pdf"
  /\ Len(handlers[2].calls) = 2
  /\ handlers[2].calls[2].position = 2
  /\ handlers[2].calls[2].ok

====
